---- MODULE Spec2Model ----
(***************************************************************************)
(* Local Energy Market clearing and settlement engine                      *)
(* (hamlet/executor/markets/lem/lem.py) as a state machine.                *)
(*                                                                         *)
(* One Lem object is built per timetable row: __init__ reads the book of   *)
(* the row's timestep and the retailer row and resets the five local result*)
(* tables; execute runs the row's actions (clear, settle) in order and the *)
(* coupling hook.  The timetable rows come from the ex-ante timetable       *)
(* builder (hamlet/creator/markets/lem.py), which is a second state        *)
(* machine over its own variables (SpecTT).                                *)
(*                                                                         *)
(* Tables are bags of rows (records).  The dimension columns that are the  *)
(* same for every row of one step (timestep, region, market, name) are     *)
(* left out of the rows.  A nullable column holds <<>> for null and <<v>>  *)
(* for the value v.                                                        *)
(*                                                                         *)
(* UInt64 energies are held in two's-complement reading: n >= 0 stands for *)
(* n and n < 0 stands for 2^64 + n, so that wrapping subtraction is plain  *)
(* subtraction and "x > 0" (unsigned) is "x # 0".                          *)
(***************************************************************************)
EXTENDS Integers, Sequences, FiniteSets, Bags, TLC

VARIABLES
    pc,                 \* position of the engine: "post", "exec", "done", "failed"
    bids_offers,        \* the book of the timestep held by the database
    retailer,           \* self.retailer: retailer rows with timestamp = timestep
    tasks,              \* self.tasks: the timetable row (actions, pricing)
    idx,                \* index of the next action of execute's loop
    bids,               \* bids of the last __split_bids_offers (sorted, with cumsum)
    offers,             \* offers of the last __split_bids_offers
    trades_cleared,     \* trades_cleared of the last __clear_bids_offers
    bids_cleared,       \* self.bids_cleared
    offers_cleared,     \* self.offers_cleared
    bids_uncleared,     \* self.bids_uncleared
    offers_uncleared,   \* self.offers_uncleared
    transactions,       \* self.transactions
    market,             \* self.market: the five tables of the market database
    executed,           \* the actions execute's loop has dispatched, in order
    tt_pc,              \* position of the timetable builder
    timing,             \* clearing['timing'] of the market configuration
    time_opening,       \* time_opening of the builder's outer loop
    time_frequency,     \* time_frequency of the builder's inner loop
    tt_opening,         \* tt_opening: the rows of the current opening
    timetable,          \* timetable: the rows of the openings so far
    prices              \* the retailer table made from the timetable

lemVars == <<pc, bids_offers, retailer, tasks, idx, bids, offers, trades_cleared,
             bids_cleared, offers_cleared, bids_uncleared, offers_uncleared,
             transactions, market, executed>>

ttVars == <<tt_pc, timing, time_opening, time_frequency, tt_opening, timetable,
            prices>>

vars == <<lemVars, ttVars>>

----------------------------------------------------------------------------
(* The ex-ante timetable builder: configuration and rows *)

\* the end of the simulation (sim start is 0, timing.start is an offset of 0)
SimEnd == 4

\* timing.start: an offset from the start of the simulation
Starts == {0, SimEnd}
Openings == {1, 2, 4}
Frequencies == {1, 2}
Durations == {1, 2}
HorizonStarts == {-1, 0, 1}
HorizonEnds == {0, 1, 2, 3, 4}
Closings == {0, 1, 2}
Settlings == {"continuous", "periodic", "other"}

Timings ==
    [start : Starts, opening : Openings, frequency : Frequencies,
     duration : Durations, h0 : HorizonStarts, h1 : HorizonEnds, closing : Closings,
     settling : Settlings]

HorizonStart(a, b) == a

Max(a, b) == IF a >= b THEN a ELSE b

DateRangeBoth(start, end, freq) ==
    [i \in 1..(IF start > end THEN 0 ELSE (end - start) \div freq + 1) |->
        start + (i - 1) * freq]

\* pd.date_range(start, end, freq, inclusive='left')
RECURSIVE DateRange(_, _, _)
DateRange(start, end, freq) ==
    IF start >= end THEN <<>>
    ELSE <<start>> \o DateRange(start + freq, end, freq)

\* end_opening of the opening that starts at o (frequency <= opening)
EndOpening(t, o) ==
    IF t.frequency = t.opening THEN o + t.opening ELSE o + t.h1

\* action += ',settle' (the action string as the list split(',') gives)
PrependSettle(a) == <<"settle">> \o a

AppendSettle(a) == a \o <<"settle">>

ActionContinuousAppendLast(timestep, timestamp, closing) ==
    LET closed == IF timestep - timestamp < closing THEN <<"settle">>
                  ELSE <<"clear">>
    IN IF timestep <= timestamp THEN AppendSettle(closed) ELSE closed

ActionContinuousNoClosing(timestep, timestamp, closing) ==
    IF timestep <= timestamp THEN AppendSettle(<<"clear">>) ELSE <<"clear">>

\* the action of a row under settling = continuous
ActionContinuous(timestep, timestamp, closing) ==
    LET cleared == <<"clear">>
        settled == IF timestep <= timestamp THEN AppendSettle(cleared) ELSE cleared
    IN IF timestep - timestamp < closing THEN <<"settle">> ELSE settled

ActionPeriodicAll(steps, timestamp, closing) ==
    LET cleared == <<"clear">>
        settled == IF \A i \in DOMAIN steps : steps[i] <= timestamp + closing
                   THEN AppendSettle(cleared) ELSE cleared
    IN IF \A i \in DOMAIN steps : steps[i] - timestamp < closing
       THEN <<"settle">> ELSE settled

\* the action of every row of a block under settling = periodic
ActionPeriodic(steps, timestamp, closing) ==
    LET cleared == <<"clear">>
        settled == IF \E i \in DOMAIN steps : steps[i] <= timestamp + closing
                   THEN AppendSettle(cleared) ELSE cleared
    IN IF \E i \in DOMAIN steps : steps[i] - timestamp < closing
       THEN <<"settle">> ELSE settled

\* tt_frequency: the rows of the frequency instant f of the opening at o
TtFrequency(t, o, f) ==
    LET start_frequency == Max(o + t.h0, f)
        steps == DateRange(start_frequency, o + t.h1, t.duration)
    IN [i \in DOMAIN steps |->
          [timestamp |-> f, timestep |-> steps[i],
           action |-> IF t.settling = "continuous"
                      THEN ActionContinuous(steps[i], f, t.closing)
                      ELSE ActionPeriodic(steps, f, t.closing)]]

\* (timestamp, timestep) of a before that of b
RowBefore(a, b) ==
    \/ a.timestamp < b.timestamp
    \/ a.timestamp = b.timestamp /\ a.timestep < b.timestep

RECURSIVE InsertRow(_, _)
InsertRow(r, s) ==
    IF s = <<>> THEN <<r>>
    ELSE IF RowBefore(r, Head(s)) THEN <<r>> \o s
    ELSE <<Head(s)>> \o InsertRow(r, Tail(s))

SortValuesNone(s) == s

\* timetable.sort_values(by=['timestamp', 'timestep']): rows with equal keys
\* keep their order
RECURSIVE SortValues(_)
SortValues(s) ==
    IF s = <<>> THEN <<>>
    ELSE InsertRow(s[Len(s)], SortValues(SubSeq(s, 1, Len(s) - 1)))

\* the action strings the builder writes into a timetable row
ActionStrings ==
    UNION {{blk[i].action : i \in DOMAIN blk} :
              blk \in {TtFrequency(t, 0, f) :
                          t \in {x \in Timings : x.settling # "other"},
                          f \in 0..(SimEnd - 1)}}

----------------------------------------------------------------------------
(* Bounds and input domains *)

\* largest number of agent quotes in the book of one timestep
MaxQuotes == 2

Agents == {"a1", "a2"}
Retailers == {"r1"}
\* the delivery instant of the row, and the decision instants at which an
\* agent can have posted a quote for it (quote key: timestamp, id_agent)
Timestep == 2
Timestamps == {1, 2}
EnergyValues == {1, 2}
PriceValues == {0, 1}

\* a physical quote: exactly one side is nonzero
Quotes ==
    [id_agent : Agents, timestamp : Timestamps, energy_in : EnergyValues,
     energy_out : {0}, price_pu_in : PriceValues, price_pu_out : {0}]
    \cup
    [id_agent : Agents, timestamp : Timestamps, energy_in : {0},
     energy_out : EnergyValues, price_pu_in : {0}, price_pu_out : PriceValues]

\* the retailer rows a step can see (one row per timestep and retailer)
RetailerRows ==
    [retailer : Retailers, timestamp : {Timestep},
     energy_price_sell : {1}, energy_price_buy : {0},
     energy_quantity_sell : {0, 2}, energy_quantity_buy : {0, 2},
     balancing_price_sell : {3}, balancing_price_buy : {5},
     grid_local_sell : {1}, grid_local_buy : {2},
     levies_price_sell : {0}, levies_price_buy : {1}]

\* the action strings of the rows handed to the engine: those of the builder
\* and a hand-written row with an action the engine does not know
TaskActions == ActionStrings \cup {<<"clear", "couple">>}
PricingMethods == {"uniform", "discriminatory"}

----------------------------------------------------------------------------
(* Nullable values and bags *)

Null == <<>>
Some(v) == <<v>>

RECURSIVE BagSumOver(_, _)
BagSumOver(B, S) ==
    IF S = {} THEN 0
    ELSE LET r == CHOOSE x \in S : TRUE IN B[r] + BagSumOver(B, S \ {r})

\* the bag of the images of the rows of B under F
BagMap(B, F(_)) ==
    LET img == {F(r) : r \in DOMAIN B}
    IN [y \in img |-> BagSumOver(B, {r \in DOMAIN B : F(r) = y})]

\* sum of column col over the rows of bag B that satisfy P
RECURSIVE BagColSumOver(_, _, _)
BagColSumOver(B, S, col) ==
    IF S = {} THEN 0
    ELSE LET r == CHOOSE x \in S : TRUE
         IN B[r] * r[col] + BagColSumOver(B, S \ {r}, col)

RECURSIVE SeqColSum(_, _)
SeqColSum(s, col) ==
    IF s = <<>> THEN 0 ELSE Head(s)[col] + SeqColSum(Tail(s), col)

RECURSIVE Perms(_)
Perms(S) ==
    IF S = {} THEN {<<>>}
    ELSE UNION {{<<x>> \o p : p \in Perms(S \ {x})} : x \in S}

RECURSIVE SortedSeq(_)
SortedSeq(S) ==
    IF S = {} THEN <<>>
    ELSE LET m == CHOOSE x \in S : \A y \in S : x <= y
         IN <<m>> \o SortedSeq(S \ {m})

\* pl.concat(how='align'): full outer join on the common columns (here all
\* columns, null keys compared equal), so a row held by both frames comes
\* out once per pair of copies and any other row with its own copies
AlignConcat(L, R) ==
    [r \in (DOMAIN L) \cup (DOMAIN R) |->
        IF r \in DOMAIN L /\ r \in DOMAIN R THEN L[r] * R[r]
        ELSE IF r \in DOMAIN L THEN L[r] ELSE R[r]]

EmptyMarket ==
    [bids_cleared |-> EmptyBag, offers_cleared |-> EmptyBag,
     bids_uncleared |-> EmptyBag, offers_uncleared |-> EmptyBag,
     market_transactions |-> EmptyBag]

----------------------------------------------------------------------------
(* __create_bids_offers *)

\* the retailer rows renamed into the quote schema.  The energy_type column
\* (null for a retailer row, then forward filled) is read by no later step
\* and is left out of the rows, as are the dimension columns.
RetailerQuotes(ret) ==
    {[id_agent |-> r.retailer, timestamp |-> r.timestamp,
      energy_in |-> r.energy_quantity_sell, energy_out |-> r.energy_quantity_buy,
      price_pu_in |-> r.energy_price_sell, price_pu_out |-> r.energy_price_buy]
        : r \in ret}

CreateBidsOffers(book, ret) == book \cup RetailerQuotes(ret)

----------------------------------------------------------------------------
(* __split_bids_offers *)

BidRows(bo) ==
    {[id_agent_in |-> q.id_agent, timestamp |-> q.timestamp,
      energy_in |-> q.energy_in, price_pu_in |-> q.price_pu_in]
        : q \in {r \in bo : r.energy_in > 0}}

OfferRows(bo) ==
    {[id_agent_out |-> q.id_agent, timestamp |-> q.timestamp,
      energy_out |-> q.energy_out, price_pu_out |-> q.price_pu_out]
        : q \in {r \in bo : r.energy_out > 0}}

\* the orders a shuffle followed by a sort on price (descending) can leave
SortedBids(rows) ==
    {s \in Perms(rows) :
        \A i \in 1..(Len(s) - 1) : s[i].price_pu_in >= s[i + 1].price_pu_in}

\* the orders a shuffle followed by a sort on price (ascending) can leave
SortedOffers(rows) ==
    {s \in Perms(rows) :
        \A i \in 1..(Len(s) - 1) : s[i].price_pu_out <= s[i + 1].price_pu_out}

BidsCumsum(s) ==
    [i \in 1..Len(s) |->
        [id_agent_in |-> s[i].id_agent_in, timestamp |-> s[i].timestamp,
         energy_in |-> s[i].energy_in, price_pu_in |-> s[i].price_pu_in,
         energy_cumsum |-> SeqColSum(SubSeq(s, 1, i), "energy_in")]]

OffersCumsum(s) ==
    [i \in 1..Len(s) |->
        [id_agent_out |-> s[i].id_agent_out, timestamp |-> s[i].timestamp,
         energy_out |-> s[i].energy_out, price_pu_out |-> s[i].price_pu_out,
         energy_cumsum |-> SeqColSum(SubSeq(s, 1, i), "energy_out")]]

----------------------------------------------------------------------------
(* __clear_bids_offers *)

TradeCols ==
    {"id_agent_in", "energy_in", "price_pu_in",
     "id_agent_out", "energy_out", "price_pu_out"}

\* the full outer join of bids and offers on energy_cumsum, sorted by it
JoinOnCumsum(b, o) ==
    LET cs == SortedSeq({b[i].energy_cumsum : i \in DOMAIN b}
                        \cup {o[i].energy_cumsum : i \in DOMAIN o})
        BidAt(c, col) ==
            IF \E i \in DOMAIN b : b[i].energy_cumsum = c
            THEN Some((CHOOSE r \in {b[i] : i \in DOMAIN b} : r.energy_cumsum = c)[col])
            ELSE Null
        OfferAt(c, col) ==
            IF \E i \in DOMAIN o : o[i].energy_cumsum = c
            THEN Some((CHOOSE r \in {o[i] : i \in DOMAIN o} : r.energy_cumsum = c)[col])
            ELSE Null
    IN [k \in 1..Len(cs) |->
          [energy_cumsum |-> cs[k],
           id_agent_in |-> BidAt(cs[k], "id_agent_in"),
           energy_in |-> BidAt(cs[k], "energy_in"),
           price_pu_in |-> BidAt(cs[k], "price_pu_in"),
           id_agent_out |-> OfferAt(cs[k], "id_agent_out"),
           energy_out |-> OfferAt(cs[k], "energy_out"),
           price_pu_out |-> OfferAt(cs[k], "price_pu_out")]]

\* fill_null(strategy='backward') of one column, read at row i
RECURSIVE BackwardFill(_, _, _)
BackwardFill(s, col, i) ==
    IF i > Len(s) THEN Null
    ELSE IF s[i][col] # Null THEN s[i][col]
    ELSE BackwardFill(s, col, i + 1)

FillNullBackward(s) ==
    [i \in 1..Len(s) |->
        [c \in TradeCols \cup {"energy_cumsum"} |->
            IF c = "energy_cumsum" THEN s[i].energy_cumsum
            ELSE BackwardFill(s, c, i)]]

\* rows with price_pu_in >= price_pu_out (a null price compares as null)
IsCleared(r) ==
    /\ r.price_pu_in # Null
    /\ r.price_pu_out # Null
    /\ r.price_pu_in[1] >= r.price_pu_out[1]

\* Float64 round(): halves are rounded away from zero; n is twice the value
RoundHalf(n) ==
    IF n % 2 = 0 THEN n \div 2
    ELSE IF n > 0 THEN (n + 1) \div 2
    ELSE (n - 1) \div 2

\* Expr.tail() keeps the last 10 rows
TailRows == 10

\* __pricing_uniform: ((price_pu_out.tail() + price_pu_in.tail()) / 2).round();
\* the column has min(TailRows, n) values and must fit the n rows of the frame
PricingUniformPuSum(in, out) == out + in

PricingUniformPu(in, out) == RoundHalf(out + in)

PricingUniform(trades) ==
    LET n == Len(trades)
        m == IF n < TailRows THEN n ELSE TailRows
        col == [j \in 1..m |->
                   PricingUniformPu(trades[n - m + j].price_pu_in[1],
                                    trades[n - m + j].price_pu_out[1])]
    IN IF m = n THEN [ok |-> TRUE, price_pu |-> col]
       ELSE [ok |-> FALSE, price_pu |-> <<>>]

\* __pricing_discriminatory takes no frame: calling it with one raises
Pricing(method, trades) ==
    IF method = "uniform" THEN PricingUniform(trades)
    ELSE [ok |-> FALSE, price_pu |-> <<>>]

Min(a, b) == IF a <= b THEN a ELSE b

\* the marginal energy of a cleared row: min over energy_in, energy_out
TradeEnergy(r) == Min(r.energy_in[1], r.energy_out[1])

ClearBidsOffers(b, o, method) ==
    LET joined == FillNullBackward(JoinOnCumsum(b, o))
        cleared == SelectSeq(joined, IsCleared)
        priced == Pricing(method, cleared)
    IN [ok |-> priced.ok,
        trades |->
          IF ~priced.ok THEN <<>>
          ELSE [i \in 1..Len(cleared) |->
                  [energy_cumsum |-> cleared[i].energy_cumsum,
                   id_agent_in |-> cleared[i].id_agent_in[1],
                   energy_in |-> cleared[i].energy_in[1],
                   price_pu_in |-> cleared[i].price_pu_in[1],
                   id_agent_out |-> cleared[i].id_agent_out[1],
                   energy_out |-> cleared[i].energy_out[1],
                   price_pu_out |-> cleared[i].price_pu_out[1],
                   price_pu |-> priced.price_pu[i],
                   energy |-> TradeEnergy(cleared[i]),
                   price |-> priced.price_pu[i] * TradeEnergy(cleared[i])]]]

----------------------------------------------------------------------------
(* __create_market_tables *)

\* bids semi-joined and then inner-joined with trades_cleared on id_agent_in:
\* one row per pair (bid row, cleared trade row) of the same agent
BidsCleared(b, t) ==
    LET pairs == {p \in (DOMAIN b) \X (DOMAIN t) :
                     b[p[1]].id_agent_in = t[p[2]].id_agent_in}
        Row(p) == [id_agent_in |-> b[p[1]].id_agent_in,
                   timestamp |-> b[p[1]].timestamp,
                   energy_in |-> t[p[2]].energy,
                   price_pu_in |-> t[p[2]].price_pu,
                   price_in |-> t[p[2]].price]
    IN [r \in {Row(p) : p \in pairs} |-> Cardinality({p \in pairs : Row(p) = r})]

OffersCleared(o, t) ==
    LET pairs == {p \in (DOMAIN o) \X (DOMAIN t) :
                     o[p[1]].id_agent_out = t[p[2]].id_agent_out}
        Row(p) == [id_agent_out |-> o[p[1]].id_agent_out,
                   timestamp |-> o[p[1]].timestamp,
                   energy_out |-> t[p[2]].energy,
                   price_pu_out |-> t[p[2]].price_pu,
                   price_out |-> t[p[2]].price]
    IN [r \in {Row(p) : p \in pairs} |-> Cardinality({p \in pairs : Row(p) = r})]

\* groupby(id_agent).sum() of the cleared energy, 0 for an agent without rows
ClearedByAgentId(cleared, idcol, ecol, a) ==
    BagColSumOver(cleared, {r \in DOMAIN cleared : r[idcol] = a}, ecol)

\* UInt64 subtraction (wraps below zero; two's-complement reading)
SubUInt64(a, b) == a - b

\* bids minus the energy cleared for their agent; rows with energy_in > 0
\* (unsigned) are kept, rows of a retailer are dropped
BidsUncleared(b, cleared, retailer_names) ==
    LET Row(i) == [id_agent_in |-> b[i].id_agent_in,
                   timestamp |-> b[i].timestamp,
                   energy_in |-> SubUInt64(b[i].energy_in,
                                     ClearedByAgentId(cleared, "id_agent_in",
                                                      "energy_in", b[i].id_agent_in)),
                   price_pu_in |-> b[i].price_pu_in]
        keep == {i \in DOMAIN b : /\ Row(i).energy_in # 0
                                  /\ Row(i).id_agent_in \notin retailer_names}
    IN [r \in {Row(i) : i \in keep} |-> Cardinality({i \in keep : Row(i) = r})]

OffersUnclearedAll(o, cleared, retailer_names) ==
    LET Row(i) == [id_agent_out |-> o[i].id_agent_out,
                   timestamp |-> o[i].timestamp,
                   energy_out |-> SubUInt64(o[i].energy_out,
                                      ClearedByAgentId(cleared, "id_agent_out",
                                                       "energy_out", o[i].id_agent_out)),
                   price_pu_out |-> o[i].price_pu_out]
        keep == {i \in DOMAIN o : Row(i).energy_out # 0}
    IN [r \in {Row(i) : i \in keep} |-> Cardinality({i \in keep : Row(i) = r})]

OffersUncleared(o, cleared, retailer_names) ==
    LET Row(i) == [id_agent_out |-> o[i].id_agent_out,
                   timestamp |-> o[i].timestamp,
                   energy_out |-> SubUInt64(o[i].energy_out,
                                      ClearedByAgentId(cleared, "id_agent_out",
                                                       "energy_out", o[i].id_agent_out)),
                   price_pu_out |-> o[i].price_pu_out]
        keep == {i \in DOMAIN o : /\ Row(i).energy_out # 0
                                  /\ Row(i).id_agent_out \notin retailer_names}
    IN [r \in {Row(i) : i \in keep} |-> Cardinality({i \in keep : Row(i) = r})]

TT_MARKET == "market"
TT_BALANCING == "balancing"
TT_GRID == "grid"
TT_LEVIES == "levies"

\* a cleared bid as a row of the diagonal concatenation
MarketTransactionIn(r) ==
    [id_agent |-> r.id_agent_in, timestamp |-> r.timestamp,
     type_transaction |-> TT_MARKET, quality |-> 0,
     energy_in |-> Some(r.energy_in), price_pu_in |-> Some(r.price_pu_in),
     price_in |-> Some(r.price_in),
     energy_out |-> Null, price_pu_out |-> Null, price_out |-> Null]

MarketTransactionOut(r) ==
    [id_agent |-> r.id_agent_out, timestamp |-> r.timestamp,
     type_transaction |-> TT_MARKET, quality |-> 0,
     energy_in |-> Null, price_pu_in |-> Null, price_in |-> Null,
     energy_out |-> Some(r.energy_out), price_pu_out |-> Some(r.price_pu_out),
     price_out |-> Some(r.price_out)]

CreateMarketTables(b, o, t, ret) ==
    LET bc == BidsCleared(b, t)
        oc == OffersCleared(o, t)
        retailer_names == {r.id_agent : r \in ret}   \* ret: the renamed rows
    IN [bids_cleared |-> bc,
        offers_cleared |-> oc,
        bids_uncleared |-> BidsUncleared(b, bc, retailer_names),
        offers_uncleared |-> OffersUncleared(o, oc, retailer_names),
        transactions |-> BagMap(bc, MarketTransactionIn)
                         (+) BagMap(oc, MarketTransactionOut)]

----------------------------------------------------------------------------
(* __update_database *)

\* self: the five local tables; an argument that is not passed is Null
UpdateDatabase(self, bc, oc, bu, ou, tx) ==
    [bids_cleared |->
        IF bc # Null THEN AlignConcat(self.bids_cleared, bc[1])
        ELSE self.bids_cleared,
     offers_cleared |->
        IF oc # Null THEN AlignConcat(self.offers_cleared, oc[1])
        ELSE self.offers_cleared,
     bids_uncleared |->
        IF bu # Null THEN AlignConcat(self.bids_uncleared, bu[1])
        ELSE self.bids_uncleared,
     offers_uncleared |->
        IF ou # Null THEN AlignConcat(self.offers_uncleared, ou[1])
        ELSE self.offers_uncleared,
     transactions |->
        IF tx # Null THEN AlignConcat(self.transactions, tx[1])
        ELSE self.transactions]

\* the market database's tables are set to the local ones
MarketOf(self) ==
    [bids_cleared |-> self.bids_cleared, offers_cleared |-> self.offers_cleared,
     bids_uncleared |-> self.bids_uncleared,
     offers_uncleared |-> self.offers_uncleared,
     market_transactions |-> self.transactions]

Self ==
    [bids_cleared |-> bids_cleared, offers_cleared |-> offers_cleared,
     bids_uncleared |-> bids_uncleared, offers_uncleared |-> offers_uncleared,
     transactions |-> transactions]

SetSelf(self) ==
    /\ bids_cleared' = self.bids_cleared
    /\ offers_cleared' = self.offers_cleared
    /\ bids_uncleared' = self.bids_uncleared
    /\ offers_uncleared' = self.offers_uncleared
    /\ transactions' = self.transactions
    /\ market' = MarketOf(self)

----------------------------------------------------------------------------
(* __determine_balancing_energy *)

\* the energy cap of the except branch (1e6)
EnergyCap == 1000000

\* price_pu * energy is a Float64 product cast (strict) to Int64: the cast
\* raises when the product leaves the Int64 range, which for the prices of
\* the model is the case exactly for a wrapped energy and a nonzero price
Overflows(price_pu, energy) == energy < 0 /\ price_pu # 0

CapEnergyNone(energy) == energy

\* when(energy > 1e6).then(1e6).otherwise(energy), unsigned comparison
CapEnergy(energy) == IF energy < 0 \/ energy > EnergyCap THEN EnergyCap ELSE energy

BalancingIn(u, r, cap) ==
    LET e == IF cap THEN CapEnergy(u.energy_in) ELSE u.energy_in
    IN [id_agent |-> u.id_agent_in, timestamp |-> u.timestamp,
        type_transaction |-> TT_BALANCING, quality |-> 0,
        energy_in |-> Some(e), price_pu_in |-> Some(r.balancing_price_buy),
        price_in |-> Some(r.balancing_price_buy * e),
        energy_out |-> Null, price_pu_out |-> Null, price_out |-> Null]

BalancingOutBuyPrice(u, r, cap) ==
    LET e == IF cap THEN CapEnergy(u.energy_out) ELSE u.energy_out
    IN [id_agent |-> u.id_agent_out, timestamp |-> u.timestamp,
        type_transaction |-> TT_BALANCING, quality |-> 0,
        energy_in |-> Null, price_pu_in |-> Null, price_in |-> Null,
        energy_out |-> Some(e), price_pu_out |-> Some(r.balancing_price_buy),
        price_out |-> Some(r.balancing_price_buy * e)]

BalancingOut(u, r, cap) ==
    LET e == IF cap THEN CapEnergy(u.energy_out) ELSE u.energy_out
    IN [id_agent |-> u.id_agent_out, timestamp |-> u.timestamp,
        type_transaction |-> TT_BALANCING, quality |-> 0,
        energy_in |-> Null, price_pu_in |-> Null, price_in |-> Null,
        energy_out |-> Some(e), price_pu_out |-> Some(r.balancing_price_sell),
        price_out |-> Some(r.balancing_price_sell * e)]

\* the balancing transactions of the residuals bu, ou under retailer row r
BalancingTransactions(bu, ou, r) ==
    LET raised == \/ \E u \in DOMAIN bu : Overflows(r.balancing_price_buy, u.energy_in)
                  \/ \E u \in DOMAIN ou : Overflows(r.balancing_price_sell, u.energy_out)
        In(u) == BalancingIn(u, r, raised)
        Out(u) == BalancingOut(u, r, raised)
    IN BagMap(bu, In) (+) BagMap(ou, Out)

DetermineBalancingEnergyKeep(self, ret) ==
    LET r == CHOOSE x \in ret : TRUE
    IN [self EXCEPT !.transactions =
            AlignConcat(self.transactions,
                        BalancingTransactions(self.bids_uncleared,
                                              self.offers_uncleared, r))]

\* self with the balancing transactions added and the uncleared tables cleared
DetermineBalancingEnergy(self, ret) ==
    LET r == CHOOSE x \in ret : TRUE
    IN [bids_cleared |-> self.bids_cleared,
        offers_cleared |-> self.offers_cleared,
        bids_uncleared |-> EmptyBag,
        offers_uncleared |-> EmptyBag,
        transactions |->
            AlignConcat(self.transactions,
                        BalancingTransactions(self.bids_uncleared,
                                              self.offers_uncleared, r))]

----------------------------------------------------------------------------
(* __apply_levies_taxes *)

\* a clone of a transaction with the per-unit prices overwritten by the rates
\* buy (for energy_in) and sell (for energy_out) and the prices recomputed
FeeRow(t, type, buy, sell) ==
    [id_agent |-> t.id_agent, timestamp |-> t.timestamp,
     type_transaction |-> type, quality |-> t.quality,
     energy_in |-> t.energy_in,
     price_pu_in |-> IF t.energy_in # Null THEN Some(buy) ELSE Null,
     price_in |-> IF t.energy_in # Null THEN Some(buy * t.energy_in[1]) ELSE Null,
     energy_out |-> t.energy_out,
     price_pu_out |-> IF t.energy_out # Null THEN Some(sell) ELSE Null,
     price_out |-> IF t.energy_out # Null THEN Some(sell * t.energy_out[1]) ELSE Null]

\* the cast to Int64 of a fee raises for some row of tx
FeeOverflows(tx, buy, sell) ==
    \E t \in DOMAIN tx :
        \/ t.energy_in # Null /\ Overflows(buy, t.energy_in[1])
        \/ t.energy_out # Null /\ Overflows(sell, t.energy_out[1])

ApplyLeviesTaxes(tx, ret) ==
    LET r == CHOOSE x \in ret : TRUE
        Grid(t) == FeeRow(t, TT_GRID, r.grid_local_buy, r.grid_local_sell)
        Levies(t) == FeeRow(t, TT_LEVIES, r.levies_price_buy, r.levies_price_sell)
    IN [ok |-> /\ ~FeeOverflows(tx, r.grid_local_buy, r.grid_local_sell)
               /\ ~FeeOverflows(tx, r.levies_price_buy, r.levies_price_sell),
        transactions |->
            AlignConcat(AlignConcat(tx, BagMap(tx, Grid)), BagMap(tx, Levies))]

----------------------------------------------------------------------------
(* The market database handed to __init__ *)

ClearKeep(table) == table

\* table.clear(): the table without its rows
Clear(table) == EmptyBag

EmptySelf ==
    [bids_cleared |-> EmptyBag, offers_cleared |-> EmptyBag,
     bids_uncleared |-> EmptyBag, offers_uncleared |-> EmptyBag,
     transactions |-> EmptyBag]

\* the database after an earlier row "clear" whose book was one bid of
\* energy 2 and one offer of energy 1 at price 1, posted at instant 0: a
\* trade of energy 1 and a residual bid of energy 1
PriorMarket ==
    LET b == BidsCumsum(<<[id_agent_in |-> "a1", timestamp |-> 0,
                           energy_in |-> 2, price_pu_in |-> 1]>>)
        o == OffersCumsum(<<[id_agent_out |-> "a2", timestamp |-> 0,
                             energy_out |-> 1, price_pu_out |-> 1]>>)
        t == ClearBidsOffers(b, o, "uniform").trades
        tables == CreateMarketTables(b, o, t, {})
    IN MarketOf(UpdateDatabase(EmptySelf,
                               Some(tables.bids_cleared),
                               Some(tables.offers_cleared),
                               Some(tables.bids_uncleared),
                               Some(tables.offers_uncleared),
                               Some(tables.transactions)))

Markets == {EmptyMarket, PriorMarket}

IsEmptyNever(book) == FALSE

\* self.bids_offers.collect().is_empty(): the agents' quotes only
IsEmpty(book) == book = {}

----------------------------------------------------------------------------
(* The state machine of the engine *)

\* the builder's variables while the engine runs
TTIdle ==
    /\ tt_pc = "idle"
    /\ timing = <<>>
    /\ time_opening = 0
    /\ time_frequency = 0
    /\ tt_opening = <<>>
    /\ timetable = <<>>
    /\ prices = {}

LemInit ==
    /\ pc = "post"
    /\ bids_offers = {}
    /\ retailer = {}
    /\ tasks = [actions |-> <<>>, pricing |-> "uniform"]
    /\ idx = 1
    /\ bids = <<>>
    /\ offers = <<>>
    /\ trades_cleared = <<>>
    /\ bids_cleared = EmptyBag
    /\ offers_cleared = EmptyBag
    /\ bids_uncleared = EmptyBag
    /\ offers_uncleared = EmptyBag
    /\ transactions = EmptyBag
    /\ market \in Markets
    /\ executed = <<>>

Init == LemInit /\ TTIdle

\* an agent posts a quote for the timestep (key: timestamp, id_agent): its
\* first quote at instant 1, a further one at the next instant
PostQuote ==
    /\ pc = "post"
    /\ Cardinality(bids_offers) < MaxQuotes
    /\ \E q \in Quotes :
          /\ q.timestamp
                = Cardinality({x \in bids_offers : x.id_agent = q.id_agent}) + 1
          /\ bids_offers' = bids_offers \cup {q}
    /\ UNCHANGED <<pc, retailer, tasks, idx, bids, offers, trades_cleared,
                   bids_cleared, offers_cleared, bids_uncleared,
                   offers_uncleared, transactions, market, executed>>
    /\ UNCHANGED ttVars

\* Lem.__init__ for a timetable row
Construct ==
    /\ pc = "post"
    /\ \E a \in TaskActions, p \in PricingMethods, r \in RetailerRows :
          /\ tasks' = [actions |-> a, pricing |-> p]
          /\ retailer' = {r}
    /\ bids_cleared' = Clear(market.bids_cleared)
    /\ offers_cleared' = Clear(market.offers_cleared)
    /\ bids_uncleared' = Clear(market.bids_uncleared)
    /\ offers_uncleared' = Clear(market.offers_uncleared)
    /\ transactions' = Clear(market.market_transactions)
    /\ bids' = <<>>
    /\ offers' = <<>>
    /\ trades_cleared' = <<>>
    /\ idx' = 1
    /\ pc' = "exec"
    /\ executed' = <<>>
    /\ UNCHANGED <<bids_offers, market>>
    /\ UNCHANGED ttVars

\* __action_clear
ActionClear ==
    /\ pc = "exec"
    /\ idx <= Len(tasks.actions)
    /\ tasks.actions[idx] = "clear"
    /\ executed' = Append(executed, "clear")
    /\ IF IsEmpty(bids_offers)
       THEN /\ idx' = idx + 1
            /\ UNCHANGED <<pc, bids, offers, trades_cleared, bids_cleared,
                           offers_cleared, bids_uncleared, offers_uncleared,
                           transactions, market>>
       ELSE LET ret == RetailerQuotes(retailer)
                bo == CreateBidsOffers(bids_offers, retailer)
            IN \E sb \in SortedBids(BidRows(bo)), so \in SortedOffers(OfferRows(bo)) :
               LET b == BidsCumsum(sb)
                   o == OffersCumsum(so)
                   res == ClearBidsOffers(b, o, tasks.pricing)
                   tables == CreateMarketTables(b, o, res.trades, ret)
               IN IF res.ok
                  THEN /\ bids' = b
                       /\ offers' = o
                       /\ trades_cleared' = res.trades
                       /\ SetSelf(UpdateDatabase(Self,
                                     Some(tables.bids_cleared),
                                     Some(tables.offers_cleared),
                                     Some(tables.bids_uncleared),
                                     Some(tables.offers_uncleared),
                                     Some(tables.transactions)))
                       /\ idx' = idx + 1
                       /\ pc' = pc
                  ELSE /\ pc' = "failed"
                       /\ UNCHANGED <<idx, bids, offers, trades_cleared,
                                      bids_cleared, offers_cleared, bids_uncleared,
                                      offers_uncleared, transactions, market>>
    /\ UNCHANGED <<bids_offers, retailer, tasks>>
    /\ UNCHANGED ttVars

\* __action_settle
ActionSettle ==
    /\ pc = "exec"
    /\ idx <= Len(tasks.actions)
    /\ tasks.actions[idx] = "settle"
    /\ executed' = Append(executed, "settle")
    /\ LET balanced == DetermineBalancingEnergy(Self, retailer)
           levied == ApplyLeviesTaxes(balanced.transactions, retailer)
           self == [balanced EXCEPT !.transactions = levied.transactions]
       IN IF levied.ok
          THEN /\ SetSelf(UpdateDatabase(self, Null, Null,
                                         Some(self.bids_uncleared),
                                         Some(self.offers_uncleared),
                                         Some(self.transactions)))
               /\ idx' = idx + 1
               /\ pc' = pc
          ELSE \* the exception leaves execute; the balancing result stays
               \* in the local tables, the market database is not written
               /\ bids_cleared' = balanced.bids_cleared
               /\ offers_cleared' = balanced.offers_cleared
               /\ bids_uncleared' = balanced.bids_uncleared
               /\ offers_uncleared' = balanced.offers_uncleared
               /\ transactions' = balanced.transactions
               /\ pc' = "failed"
               /\ UNCHANGED <<idx, market>>
    /\ UNCHANGED <<bids_offers, retailer, tasks, bids, offers, trades_cleared>>
    /\ UNCHANGED ttVars

\* self.actions[action] for an action that is no key of self.actions: KeyError
ActionUnknown ==
    /\ pc = "exec"
    /\ idx <= Len(tasks.actions)
    /\ tasks.actions[idx] \notin {"clear", "settle"}
    /\ pc' = "failed"
    /\ UNCHANGED <<bids_offers, retailer, tasks, idx, bids, offers,
                   trades_cleared, bids_cleared, offers_cleared, bids_uncleared,
                   offers_uncleared, transactions, market, executed>>
    /\ UNCHANGED ttVars

\* the end of execute: __couple_markets (no effect) and return
CoupleMarkets ==
    /\ pc = "exec"
    /\ idx > Len(tasks.actions)
    /\ pc' = "done"
    /\ UNCHANGED <<bids_offers, retailer, tasks, idx, bids, offers,
                   trades_cleared, bids_cleared, offers_cleared, bids_uncleared,
                   offers_uncleared, transactions, market, executed>>
    /\ UNCHANGED ttVars

Next ==
    \/ PostQuote
    \/ Construct
    \/ ActionClear
    \/ ActionSettle
    \/ ActionUnknown
    \/ CoupleMarkets

Spec == Init /\ [][Next]_vars

----------------------------------------------------------------------------
(* The state machine of the timetable builder: _create_timetable_ex_ante *)

\* the engine's variables while the builder runs
LemIdle ==
    /\ LemInit
    /\ market = EmptyMarket

InitTT ==
    /\ LemIdle
    /\ tt_pc = "opening"
    /\ timing \in Timings
    /\ time_opening = timing.start
    /\ time_frequency = timing.start
    /\ tt_opening = <<>>
    /\ timetable = <<>>
    /\ prices = {}

\* the head of the outer loop: a new opening, and the check of the frequency
BeginOpening ==
    /\ tt_pc = "opening"
    /\ time_opening < SimEnd
    /\ tt_opening' = <<>>
    /\ time_frequency' = time_opening
    /\ tt_pc' = IF timing.frequency > timing.opening THEN "failed" ELSE "frequency"
    /\ UNCHANGED <<timing, time_opening, timetable, prices>>
    /\ UNCHANGED lemVars

\* one pass of the inner loop: the rows of one frequency instant
EmitBlock ==
    /\ tt_pc = "frequency"
    /\ time_frequency < EndOpening(timing, time_opening)
    /\ IF timing.settling \in {"continuous", "periodic"}
       THEN /\ tt_opening' = tt_opening
                               \o TtFrequency(timing, time_opening, time_frequency)
            /\ time_frequency' = time_frequency + timing.frequency
            /\ tt_pc' = tt_pc
       ELSE /\ tt_pc' = "failed"
            /\ UNCHANGED <<tt_opening, time_frequency>>
    /\ UNCHANGED <<timing, time_opening, timetable, prices>>
    /\ UNCHANGED lemVars

\* the end of the inner loop: the opening's rows join the timetable
EndOfOpening ==
    /\ tt_pc = "frequency"
    /\ time_frequency >= EndOpening(timing, time_opening)
    /\ timetable' = timetable \o tt_opening
    /\ time_opening' = time_opening + timing.opening
    /\ tt_pc' = "opening"
    /\ UNCHANGED <<timing, time_frequency, tt_opening, prices>>
    /\ UNCHANGED lemVars

\* the end of the outer loop: the sort, and the return of the timetable
ReturnTimetable ==
    /\ tt_pc = "opening"
    /\ time_opening >= SimEnd
    /\ timetable' = SortValues(timetable)
    /\ tt_pc' = "done"
    /\ UNCHANGED <<timing, time_opening, time_frequency, tt_opening, prices>>
    /\ UNCHANGED lemVars

\* _create_retailer: one row for each distinct timestamp of the timetable
CreateRetailer(name, tt) ==
    {[timestamp |-> tt[i].timestamp, retailer |-> name] : i \in DOMAIN tt}

\* create_retailers_from_config on the returned timetable
CreateRetailers ==
    /\ tt_pc = "done"
    /\ prices' = UNION {CreateRetailer(name, timetable) : name \in Retailers}
    /\ tt_pc' = "created"
    /\ UNCHANGED <<timing, time_opening, time_frequency, tt_opening, timetable>>
    /\ UNCHANGED lemVars

NextTT ==
    \/ BeginOpening
    \/ EmitBlock
    \/ EndOfOpening
    \/ ReturnTimetable
    \/ CreateRetailers

SpecTT == InitTT /\ [][NextTT]_vars

----------------------------------------------------------------------------
(* Properties *)

Book == CreateBidsOffers(bids_offers, retailer)

RECURSIVE SetColSum(_, _)
SetColSum(S, col) ==
    IF S = {} THEN 0
    ELSE LET r == CHOOSE x \in S : TRUE IN r[col] + SetColSum(S \ {r}, col)

BagColSum(B, col) == BagColSumOver(B, DOMAIN B, col)

BagFilter(B, P(_)) == [r \in {x \in DOMAIN B : P(x)} |-> B[r]]

\* the last action execute has finished is a (also: b)
AfterAction(a) ==
    /\ pc \in {"exec", "done"}
    /\ idx > 1
    /\ tasks.actions[idx - 1] = a

AfterClear == AfterAction("clear")
AfterSettle == AfterAction("settle")

SubmittedIn(a) == SetColSum({q \in Book : q.id_agent = a}, "energy_in")
SubmittedOut(a) == SetColSum({q \in Book : q.id_agent = a}, "energy_out")
ClearedIn(a) == ClearedByAgentId(bids_cleared, "id_agent_in", "energy_in", a)
ClearedOut(a) == ClearedByAgentId(offers_cleared, "id_agent_out", "energy_out", a)
ResidualRowsIn(a) == {r \in DOMAIN bids_uncleared : r.id_agent_in = a}
ResidualRowsOut(a) == {r \in DOMAIN offers_uncleared : r.id_agent_out = a}

\* C1: after clear, for every agent the energy_in summed over its cleared-bid
\* rows is at most the energy_in it submitted, and the energy_out summed over
\* its cleared-offer rows is at most the energy_out it submitted.
C1_ClearedWithinSubmitted ==
    AfterClear =>
        \A a \in Agents \cup Retailers :
            /\ ClearedIn(a) <= SubmittedIn(a)
            /\ ClearedOut(a) <= SubmittedOut(a)

\* C2: after clear, for every non-retailer agent the cleared energy_in plus
\* the residual energy_in of its uncleared-bid rows (0 if absent) equals the
\* energy_in it submitted; symmetric for offers.  A residual that wrapped
\* below zero is a value above 2^63 and equals no submitted energy.
C2_ClearedPlusResidualIsSubmitted ==
    AfterClear =>
        \A a \in Agents :
            /\ \A r \in ResidualRowsIn(a) : r.energy_in >= 0
            /\ \A r \in ResidualRowsOut(a) : r.energy_out >= 0
            /\ ClearedIn(a) + BagColSumOver(bids_uncleared, ResidualRowsIn(a), "energy_in")
                   = SubmittedIn(a)
            /\ ClearedOut(a) + BagColSumOver(offers_uncleared, ResidualRowsOut(a), "energy_out")
                   = SubmittedOut(a)

\* C3: after clear, the energy_in summed over all cleared-bid rows equals the
\* energy_out summed over all cleared-offer rows.
C3_ClearedEnergyBalanced ==
    AfterClear =>
        BagColSum(bids_cleared, "energy_in") = BagColSum(offers_cleared, "energy_out")

\* C4: every cleared trade row has price_pu_out <= price_pu <= price_pu_in.
C4_PriceBetweenOfferAndBid ==
    \A i \in DOMAIN trades_cleared :
        /\ trades_cleared[i].price_pu_out <= trades_cleared[i].price_pu
        /\ trades_cleared[i].price_pu <= trades_cleared[i].price_pu_in

C4_Witness ==
    /\ AfterClear
    /\ \E i \in DOMAIN trades_cleared :
          /\ trades_cleared[i].price_pu_out < trades_cleared[i].price_pu_in
          /\ trades_cleared[i].price_pu_out + trades_cleared[i].price_pu_in
                 # 2 * trades_cleared[i].price_pu

IsMarketTransaction(t) == t.type_transaction = TT_MARKET
IsBalancingTransaction(t) == t.type_transaction = TT_BALANCING

\* the sum of a nullable column over the rows of a bag (nulls are skipped)
RECURSIVE BagNullableSumOver(_, _, _)
BagNullableSumOver(B, S, col) ==
    IF S = {} THEN 0
    ELSE LET r == CHOOSE x \in S : TRUE
         IN (IF r[col] = Null THEN 0 ELSE B[r] * r[col][1])
            + BagNullableSumOver(B, S \ {r}, col)

MarketPriceIn(tx) ==
    BagNullableSumOver(tx, {t \in DOMAIN tx : IsMarketTransaction(t)}, "price_in")
MarketPriceOut(tx) ==
    BagNullableSumOver(tx, {t \in DOMAIN tx : IsMarketTransaction(t)}, "price_out")

\* C5: among the market transactions of the step the sum of price_in equals
\* the sum of price_out.
C5_MarketMoneyBalanced ==
    /\ MarketPriceIn(transactions) = MarketPriceOut(transactions)
    /\ MarketPriceIn(market.market_transactions)
           = MarketPriceOut(market.market_transactions)

\* C6: after settle has completed, the uncleared-bids and uncleared-offers
\* tables are empty, the local ones and those of the market database.
C6_UnclearedEmptyAfterSettle ==
    AfterSettle =>
        /\ bids_uncleared = EmptyBag
        /\ offers_uncleared = EmptyBag
        /\ market.bids_uncleared = EmptyBag
        /\ market.offers_uncleared = EmptyBag

\* settle has completed after a clear that left residuals (they are now the
\* balancing transactions)
C6_Witness ==
    /\ AfterSettle
    /\ \E t \in DOMAIN transactions : IsBalancingTransaction(t)
    /\ market.bids_uncleared = EmptyBag
    /\ market.offers_uncleared = EmptyBag

\* C7: under uniform pricing every cleared row carries the same price_pu, the
\* rounded mean of the bid and offer price of the last cleared row.
C7_UniformSinglePrice ==
    (AfterClear /\ tasks.pricing = "uniform" /\ trades_cleared # <<>>) =>
        LET last == trades_cleared[Len(trades_cleared)]
        IN \A i \in DOMAIN trades_cleared :
              trades_cleared[i].price_pu
                  = RoundHalf(last.price_pu_in + last.price_pu_out)

\* C8: under discriminatory pricing clear completes, and every cleared row
\* gets the rounded mean of its own bid and offer price.
C8_DiscriminatoryClearCompletes ==
    tasks.pricing = "discriminatory" =>
        /\ pc # "failed"
        /\ AfterClear =>
              \A i \in DOMAIN trades_cleared :
                  trades_cleared[i].price_pu
                      = RoundHalf(trades_cleared[i].price_pu_in
                                  + trades_cleared[i].price_pu_out)

\* the book is one bid of energy b and one offer of energy o > b at prices
\* that cross, and the retailer quotes no quantity
PartialFill(bid, offer) ==
    /\ bids_offers = {bid, offer}
    /\ bid.energy_in > 0
    /\ offer.energy_out > bid.energy_in
    /\ bid.price_pu_in >= offer.price_pu_out
    /\ \A r \in retailer : r.energy_quantity_sell = 0 /\ r.energy_quantity_buy = 0

\* C9: partial fill.  After clear: cleared energy b on both sides, no
\* uncleared bid, one uncleared offer of residual o - b.  After the settle
\* that follows: exactly one balancing transaction, of the offering agent,
\* with energy_out = o - b at the retailer's balancing_price_sell.
C9_PartialFill ==
    \A bid \in bids_offers, offer \in bids_offers :
        PartialFill(bid, offer) =>
            /\ AfterClear =>
                  /\ BagCardinality(bids_cleared) = 1
                  /\ BagCardinality(offers_cleared) = 1
                  /\ BagColSum(bids_cleared, "energy_in") = bid.energy_in
                  /\ BagColSum(offers_cleared, "energy_out") = bid.energy_in
                  /\ bids_uncleared = EmptyBag
                  /\ BagCardinality(offers_uncleared) = 1
                  /\ \A u \in DOMAIN offers_uncleared :
                        /\ u.id_agent_out = offer.id_agent
                        /\ u.energy_out = offer.energy_out - bid.energy_in
            /\ (AfterSettle /\ tasks.actions = <<"clear", "settle">>) =>
                  \A tx \in {transactions, market.market_transactions} :
                      LET bal == BagFilter(tx, IsBalancingTransaction)
                      IN /\ BagCardinality(bal) = 1
                         /\ \A t \in DOMAIN bal, r \in retailer :
                               /\ t.id_agent = offer.id_agent
                               /\ t.energy_in = Null
                               /\ t.energy_out = Some(offer.energy_out - bid.energy_in)
                               /\ t.price_pu_out = Some(r.balancing_price_sell)
                               /\ t.price_out = Some(r.balancing_price_sell
                                                 * (offer.energy_out - bid.energy_in))

C9_Witness ==
    /\ AfterSettle
    /\ tasks.actions = <<"clear", "settle">>
    /\ \E bid \in bids_offers, offer \in bids_offers : PartialFill(bid, offer)
    /\ \E t \in DOMAIN market.market_transactions : IsBalancingTransaction(t)

\* C10: after clear no row of the uncleared tables belongs to a retailer, and
\* no balancing transaction is ever emitted for a retailer.
C10_NoRetailerResidual ==
    /\ \A r \in DOMAIN bids_uncleared \cup DOMAIN market.bids_uncleared :
          r.id_agent_in \notin Retailers
    /\ \A r \in DOMAIN offers_uncleared \cup DOMAIN market.offers_uncleared :
          r.id_agent_out \notin Retailers
    /\ \A t \in DOMAIN transactions \cup DOMAIN market.market_transactions :
          IsBalancingTransaction(t) => t.id_agent \notin Retailers

\* settle has followed a clear that left part of the retailer's quantity
\* unmatched
C10_Witness ==
    /\ AfterSettle
    /\ tasks.actions = <<"clear", "settle">>
    /\ \E r \in retailer :
          /\ r.energy_quantity_buy > 0
          /\ ClearedOut(r.retailer) < r.energy_quantity_buy
          /\ \E i \in DOMAIN offers : offers[i].id_agent_out = r.retailer

IsGridTransaction(t) == t.type_transaction = TT_GRID
IsLeviesTransaction(t) == t.type_transaction = TT_LEVIES

\* the agent and the energy of a transaction
TransactionVolume(t) ==
    [id_agent |-> t.id_agent, timestamp |-> t.timestamp,
     energy_in |-> t.energy_in, energy_out |-> t.energy_out]

\* C11: after a row with action clear,settle the transactions table holds
\* exactly one grid and one levies transaction per market transaction of the
\* step, each with that transaction's agent and energy, and none derived from
\* a balancing transaction: the grid rows, and the levies rows, read as
\* (agent, energy) are the market rows read as (agent, energy).
C11_FeesFromClearedVolume ==
    (AfterSettle /\ tasks.actions = <<"clear", "settle">>) =>
        LET volume == BagMap(BagFilter(transactions, IsMarketTransaction),
                             TransactionVolume)
        IN /\ BagMap(BagFilter(transactions, IsGridTransaction), TransactionVolume)
                 = volume
           /\ BagMap(BagFilter(transactions, IsLeviesTransaction), TransactionVolume)
                 = volume

\* the residuals the clear of this row left, and whether the balancing
\* multiplication overflows for one of them
ResidualOverflow ==
    \E r \in retailer :
        \/ \E u \in DOMAIN BidsUncleared(bids, bids_cleared, Retailers) :
              Overflows(r.balancing_price_buy, u.energy_in)
        \/ \E u \in DOMAIN OffersUncleared(offers, offers_cleared, Retailers) :
              Overflows(r.balancing_price_sell, u.energy_out)

\* a nullable energy is null or at most the cap, and the price is the
\* per-unit price times it
CappedSide(energy, price_pu, price) ==
    energy # Null =>
        /\ energy[1] >= 0
        /\ energy[1] <= EnergyCap
        /\ price = Some(price_pu[1] * energy[1])

\* C12: when the balancing multiplication overflows for a residual row,
\* settle does not fail: every balancing transaction of the step has its
\* energy capped at 10^6 and its price recomputed from the capped energy,
\* and the step goes on through grid fees, levies and the write-back.
C12_OverflowCapped ==
    (tasks.actions = <<"clear", "settle">> /\ idx >= 2 /\ ResidualOverflow) =>
        /\ pc # "failed"
        /\ idx = 3 =>
              /\ market.market_transactions = transactions
              /\ \A t \in DOMAIN transactions :
                    IsBalancingTransaction(t) =>
                        /\ CappedSide(t.energy_in, t.price_pu_in, t.price_in)
                        /\ CappedSide(t.energy_out, t.price_pu_out, t.price_out)
                        /\ \E g \in DOMAIN transactions :
                              /\ IsGridTransaction(g)
                              /\ TransactionVolume(g) = TransactionVolume(t)
                        /\ \E l \in DOMAIN transactions :
                              /\ IsLeviesTransaction(l)
                              /\ TransactionVolume(l) = TransactionVolume(t)

\* settle has completed after a clear that left a wrapped residual, which is
\* now a balancing transaction of energy 10^6
C12_Witness ==
    /\ AfterSettle
    /\ tasks.actions = <<"clear", "settle">>
    /\ ResidualOverflow
    /\ \E t \in DOMAIN market.market_transactions :
          /\ IsBalancingTransaction(t)
          /\ \/ t.energy_in = Some(EnergyCap)
             \/ t.energy_out = Some(EnergyCap)

\* the five tables one execution of clear leaves for the tie orders sb, so
ClearOutcome(sb, so) ==
    LET b == BidsCumsum(sb)
        o == OffersCumsum(so)
        res == ClearBidsOffers(b, o, tasks.pricing)
        tables == CreateMarketTables(b, o, res.trades, RetailerQuotes(retailer))
    IN IF res.ok
       THEN UpdateDatabase(Self, Some(tables.bids_cleared),
                           Some(tables.offers_cleared),
                           Some(tables.bids_uncleared),
                           Some(tables.offers_uncleared),
                           Some(tables.transactions))
       ELSE Self

\* the outcomes the executions of clear on the inputs of this state can have
ClearOutcomes ==
    {ClearOutcome(sb, so) : sb \in SortedBids(BidRows(Book)),
                            so \in SortedOffers(OfferRows(Book))}

\* C13: clearing is reproducible: all executions of clear on the same inputs
\* (quotes, retailer row, pricing), books with equal prices included, leave
\* the same cleared, uncleared and transaction tables.
C13_ClearReproducible ==
    (pc = "exec" /\ idx <= Len(tasks.actions) /\ tasks.actions[idx] = "clear"
        /\ ~IsEmpty(bids_offers)) =>
        Cardinality(ClearOutcomes) = 1

\* C14: a timetable row commits atomically: the market database's tables are
\* written only by the step that ends execute (after every action and the
\* coupling hook), and when an action of the row fails they are as they were
\* before the row (one of the databases a row can start from).
C14_CommitAtEnd ==
    [][/\ market' # market => pc' = "done"
       /\ pc' = "failed" => market' \in Markets]_vars

\* in the sequence of actions a no settle stands before a clear
ClearBeforeSettle(a) ==
    \A i \in DOMAIN a, j \in DOMAIN a :
        (a[i] = "settle" /\ a[j] = "clear") => j < i

\* C15: within a row execute dispatches the actions in the left-to-right
\* order of the action string, and for every action string the timetable
\* builder can emit settle never runs before clear.
C15_ActionsInOrder ==
    /\ Len(executed) <= Len(tasks.actions)
    /\ executed = SubSeq(tasks.actions, 1, Len(executed))
    /\ tasks.actions \in ActionStrings => ClearBeforeSettle(executed)

\* a row of the builder with both actions has run to its end
C15_Witness ==
    /\ pc = "done"
    /\ tasks.actions \in ActionStrings
    /\ executed = <<"clear", "settle">>

\* C16: write-back appends: no step of execute removes from a table of the
\* market database a row it held for an earlier timestep (the rows of the
\* earlier row's results keep at least their copies).
C16_WriteBackAppends ==
    [][\A tbl \in DOMAIN PriorMarket :
          \A r \in DOMAIN PriorMarket[tbl] :
              r \in DOMAIN market[tbl] =>
                  /\ r \in DOMAIN market'[tbl]
                  /\ market'[tbl][r] >= market[tbl][r]]_vars

\* the combined book holds no quote: no agent quote, and no retailer quote
\* with a quantity to sell or to buy
CombinedBookEmpty ==
    /\ bids_offers = {}
    /\ \A q \in RetailerQuotes(retailer) : q.energy_in = 0 /\ q.energy_out = 0

\* C17: empty-book fast path: when the combined book of the step is empty,
\* clear raises no error, clears nothing, and leaves the five result tables
\* of the row empty.
C17_EmptyBookFastPath ==
    (CombinedBookEmpty /\ pc # "post" /\ tasks.actions[1] = "clear") =>
        /\ ~(pc = "failed" /\ idx = 1)
        /\ executed = <<"clear">> =>
              /\ Self = EmptySelf
              /\ bids = <<>>
              /\ offers = <<>>
              /\ trades_cleared = <<>>

\* clear has returned on an empty combined book
C17_Witness ==
    /\ CombinedBookEmpty
    /\ pc \in {"exec", "done"}
    /\ idx = 2
    /\ executed = <<"clear">>
    /\ Self = EmptySelf

----------------------------------------------------------------------------
(* Properties of the timetable builder (SpecTT) *)

\* the builder has returned the timetable
Returned == tt_pc \in {"done", "created"}

\* C18: the timetable the builder returns is sorted ascending by
\* (timestamp, timestep), blocks of successive openings that overlap in time
\* included.
C18_TimetableSorted ==
    Returned =>
        \A i \in 1..(Len(timetable) - 1) :
            ~RowBefore(timetable[i + 1], timetable[i])

\* the builder has returned a timetable in which the sort has moved rows:
\* its tail is not the block of rows of the last opening
C18_Witness ==
    /\ Returned
    /\ tt_opening # <<>>
    /\ SubSeq(timetable, Len(timetable) - Len(tt_opening) + 1, Len(timetable))
           # tt_opening

\* C19: (timestamp, timestep) is a key of the returned timetable: no two rows
\* have the same timestamp and timestep.
C19_TimetableKey ==
    Returned =>
        \A i \in DOMAIN timetable, j \in DOMAIN timetable :
            (timetable[i].timestamp = timetable[j].timestamp
                /\ timetable[i].timestep = timetable[j].timestep) => i = j

\* the openings of the simulation
OpeningTimes ==
    {o \in timing.start..(SimEnd - 1) : (o - timing.start) % timing.opening = 0}

\* C20: when frequency = opening, each opening has min(opening, h1) / duration
\* rows (the rows of the opening at o are those with timestamp o).
C20_RowsPerOpening ==
    (Returned /\ timing.frequency = timing.opening) =>
        \A o \in OpeningTimes :
            Cardinality({i \in DOMAIN timetable : timetable[i].timestamp = o})
                    * timing.duration
                = Min(timing.opening, timing.h1)

\* the scenario of a continuous market in units of 900 s: opening 3600,
\* frequency 900, horizon [0, 3600], duration 900, closing 1800
Scenario5 ==
    [start |-> 0, opening |-> 4, frequency |-> 1, duration |-> 1, h0 |-> 0,
     h1 |-> 4, closing |-> 2, settling |-> "continuous"]

\* clear, then clear,settle, then settle
Phase(a) ==
    IF a = <<"clear">> THEN 1 ELSE IF a = <<"clear", "settle">> THEN 2 ELSE 3

\* the rows of the opening at o, when the openings do not overlap
OpeningRows(o) ==
    {i \in DOMAIN timetable :
        timetable[i].timestamp \in o..(o + timing.opening - 1)}

\* within an opening, the action of a delivery step never goes backwards over
\* successive timestamps
NeverBackwards ==
    \A o \in OpeningTimes : \A i \in OpeningRows(o), j \in OpeningRows(o) :
        (timetable[i].timestep = timetable[j].timestep
            /\ timetable[i].timestamp < timetable[j].timestamp)
        => Phase(timetable[i].action) <= Phase(timetable[j].action)

PhasesOf(o) == {Phase(timetable[i].action) : i \in OpeningRows(o)}

\* C21 as stated: in the scenario, within each opening the action of a
\* delivery step moves from clear to clear,settle to settle; all three values
\* occur and the order never goes backwards.
C21_ThreePhases ==
    (Returned /\ timing = Scenario5) =>
        /\ NeverBackwards
        /\ \A o \in OpeningTimes : PhasesOf(o) = {1, 2, 3}

\* C21: in the scenario, within each opening the action of a delivery step
\* moves from clear to settle and never backwards; clear and settle both
\* occur, clear,settle does not (a row with T = F has T - F < closing).
C21_ClearThenSettle ==
    (Returned /\ timing = Scenario5) =>
        /\ NeverBackwards
        /\ \A o \in OpeningTimes : PhasesOf(o) = {1, 3}

\* the scenario's timetable is returned and a delivery step is cleared at one
\* timestamp and settled at a later one
C21_Witness ==
    /\ Returned
    /\ timing = Scenario5
    /\ \E i \in DOMAIN timetable, j \in DOMAIN timetable :
        /\ timetable[i].timestep = timetable[j].timestep
        /\ timetable[i].timestamp < timetable[j].timestamp
        /\ timetable[i].action = <<"clear">>
        /\ timetable[j].action = <<"settle">>

\* C22: a configuration with timing.frequency > timing.opening is rejected:
\* the builder returns no timetable for it.
C22_FrequencyRejected ==
    timing.frequency > timing.opening => ~Returned

\* C23: a configuration whose timing.settling is neither continuous nor
\* periodic is rejected: the builder returns no timetable for it and emits no
\* row.
C23_SettlingRejected ==
    timing.settling \notin {"continuous", "periodic"} =>
        /\ ~Returned
        /\ tt_opening = <<>>
        /\ timetable = <<>>

\* C24: once the retailer table is made, every row of the timetable has
\* exactly one retailer row, for each retailer, whose timestamp is the row's
\* timestep.
C24_RetailerRowPerTimestep ==
    tt_pc = "created" =>
        \A i \in DOMAIN timetable, name \in Retailers :
            Cardinality({p \in prices :
                            /\ p.timestamp = timetable[i].timestep
                            /\ p.retailer = name}) = 1

\* the instants a timestamp or a timestep of the timetable can take
TimeRange == (-1)..(SimEnd + 4)

\* the opening at o has the frequency instant f, and the delivery step t is
\* one of that instant's steps
Emits(o, f, t) ==
    LET e == IF timing.frequency = timing.opening
             THEN o + timing.opening ELSE o + timing.h1
        m == IF o + timing.h0 >= f THEN o + timing.h0 ELSE f
    IN /\ f \in o..(e - 1)
       /\ (f - o) % timing.frequency = 0
       /\ t \in m..(o + timing.h1 - 1)
       /\ (t - m) % timing.duration = 0

\* the number of rows of the timetable with timestamp f and timestep t
RowCount(f, t) ==
    Cardinality({i \in DOMAIN timetable :
                    timetable[i].timestamp = f /\ timetable[i].timestep = t})

\* C25: the returned timetable has exactly the rows (timestamp F, timestep T)
\* with F a frequency instant in [O, E) of an opening O and T in
\* [max(O + h0, F), O + h1) stepping by duration, one for each such opening,
\* and no other row.
C25_RowsEmitted ==
    Returned =>
        /\ \A i \in DOMAIN timetable :
                timetable[i].timestamp \in TimeRange
                    /\ timetable[i].timestep \in TimeRange
        /\ \A f \in TimeRange, t \in TimeRange :
                RowCount(f, t) = Cardinality({o \in OpeningTimes : Emits(o, f, t)})

\* a timetable is returned in which two openings have emitted the same
\* (timestamp, timestep) and an instant inside the range has no row
C25_Witness ==
    /\ Returned
    /\ \E f \in TimeRange, t \in TimeRange : RowCount(f, t) = 2
    /\ \E i \in DOMAIN timetable, j \in DOMAIN timetable :
          /\ timetable[i].timestamp = timetable[j].timestamp
          /\ timetable[j].timestep > timetable[i].timestep + 1
          /\ RowCount(timetable[i].timestamp, timetable[i].timestep + 1) = 0

\* C26: under settling = continuous the action of a row depends on the row
\* alone: settle when T - F < closing, otherwise clear,settle when T <= F,
\* otherwise clear.
C26_ContinuousAction ==
    timing.settling = "continuous" =>
        \A i \in DOMAIN timetable :
            LET T == timetable[i].timestep
                F == timetable[i].timestamp
            IN timetable[i].action =
                   CASE T - F < timing.closing -> <<"settle">>
                     [] T - F >= timing.closing /\ T <= F -> <<"clear", "settle">>
                     [] OTHER -> <<"clear">>

\* a continuous timetable is returned with a row of each action: the row
\* T = F of a market without closing time is cleared and settled at once
C26_Witness ==
    /\ Returned
    /\ timing.settling = "continuous"
    /\ \E i \in DOMAIN timetable :
          timetable[i].action = <<"clear", "settle">>
              /\ timetable[i].timestep = timetable[i].timestamp
    /\ \E i \in DOMAIN timetable : timetable[i].action = <<"clear">>

\* the rows of the frequency instant f in the opening that is being built
BlockRows(f) == {i \in DOMAIN tt_opening : tt_opening[i].timestamp = f}

\* C27: under settling = periodic all rows of one block (the rows of one
\* frequency instant F of the opening that is being built) carry the same
\* action: settle if some row of the block has T - F < closing, otherwise
\* clear,settle if some row has T <= F + closing, otherwise clear.
C27_PeriodicAction ==
    timing.settling = "periodic" =>
        \A f \in TimeRange :
            LET closes == \E j \in BlockRows(f) :
                              tt_opening[j].timestep - f < timing.closing
                settles == \E j \in BlockRows(f) :
                              tt_opening[j].timestep <= f + timing.closing
            IN \A i \in BlockRows(f) :
                   tt_opening[i].action =
                       IF closes THEN <<"settle">>
                       ELSE IF settles THEN <<"clear", "settle">>
                       ELSE <<"clear">>

\* a periodic block of several rows is settled as a whole, one of its rows
\* being inside the closing time and another one outside of it
C27_Witness ==
    /\ timing.settling = "periodic"
    /\ \E f \in TimeRange :
          /\ Cardinality(BlockRows(f)) >= 2
          /\ \A i \in BlockRows(f) : tt_opening[i].action = <<"settle">>
          /\ \E i \in BlockRows(f) :
                tt_opening[i].timestep - f >= timing.closing
          /\ \E i \in BlockRows(f) :
                tt_opening[i].timestep - f < timing.closing

\* C28: every row the builder makes has timestep >= timestamp, whatever the
\* horizon; hence under continuous settling a row with T <= F has T = F.
C28_TimestepNotBeforeTimestamp ==
    /\ \A i \in DOMAIN timetable : timetable[i].timestep >= timetable[i].timestamp
    /\ \A i \in DOMAIN tt_opening :
          tt_opening[i].timestep >= tt_opening[i].timestamp
    /\ timing.settling = "continuous" =>
          \A i \in DOMAIN timetable :
              timetable[i].timestep <= timetable[i].timestamp
                  => timetable[i].timestep = timetable[i].timestamp

\* a timetable is returned for a horizon that starts before the opening
\* (h0 < 0): its first delivery step is the decision instant, not O + h0
C28_Witness ==
    /\ Returned
    /\ timing.h0 < 0
    /\ \E i \in DOMAIN timetable :
          timetable[i].timestep = timetable[i].timestamp
    /\ \E i \in DOMAIN timetable :
          timetable[i].timestep > timetable[i].timestamp

\* a transaction of the settlement: balancing energy, grid fee or levy
IsSettlementTransaction(t) ==
    IsBalancingTransaction(t) \/ IsGridTransaction(t) \/ IsLeviesTransaction(t)

\* C29: for a row whose action is exactly settle the local result tables are
\* empty when settle runs, whatever the market database holds, and after settle
\* neither the local transactions nor the market database hold a balancing,
\* grid or levies transaction.
C29_SettleOnlyEmitsNothing ==
    tasks.actions = <<"settle">> =>
        /\ (pc = "exec" /\ idx = 1) => Self = EmptySelf
        /\ AfterSettle =>
              /\ \A t \in DOMAIN transactions : ~IsSettlementTransaction(t)
              /\ \A t \in DOMAIN market.market_transactions :
                    ~IsSettlementTransaction(t)
              /\ bids_uncleared = EmptyBag
              /\ offers_uncleared = EmptyBag

\* a row settle has been executed for a timestep for which agents have
\* posted quotes, and it has emitted no transaction
C29_Witness ==
    /\ tasks.actions = <<"settle">>
    /\ AfterSettle
    /\ executed = <<"settle">>
    /\ bids_offers # {}
    /\ transactions = EmptyBag

\* the energy a quote of the book submits for the agent a at the instant ts
SubmittedAt(a, ts, col) ==
    SetColSum({q \in Book : q.id_agent = a /\ q.timestamp = ts}, col)

\* C30: after clear every residual kept in the uncleared tables is above zero
\* and at most the energy of the quote it comes from: the unsigned subtraction
\* submitted - cleared has not wrapped (a wrapped value 2^64 - n reads as -n).
C30_ResidualWithinSubmitted ==
    AfterClear =>
        /\ \A r \in DOMAIN bids_uncleared :
              /\ r.energy_in > 0
              /\ r.energy_in <= SubmittedAt(r.id_agent_in, r.timestamp, "energy_in")
        /\ \A r \in DOMAIN offers_uncleared :
              /\ r.energy_out > 0
              /\ r.energy_out
                    <= SubmittedAt(r.id_agent_out, r.timestamp, "energy_out")

====
